---- MODULE Spec2Model ----
(***************************************************************************)
(* Night-light controller of lumos (package night): the two registry blobs *)
(* (state and settings), the Lumos methods that read, transform and write  *)
(* them, and the registry as a byte store.  Blobs are functions from the   *)
(* source's 0-based offsets to bytes.                                       *)
(***************************************************************************)
EXTENDS Integers, Sequences, FiniteSets, TLC

VARIABLES
    stateData,        \* "Data" value under STATE_KEY_PATH
    settingsData,     \* "Data" value under SETTINGS_KEY_PATH
    stateReadable,    \* registry.OpenKey/GetBinaryValue on the state key succeeds
    settingsReadable, \* registry.OpenKey/GetBinaryValue on the settings key succeeds
    stateLog,         \* every value the state key has held, oldest first
    settingsWrites,   \* number of setSettingsData calls so far
    op,               \* the Lumos method the caller is in
    arg,              \* SetStrength's percentage, in quarter percents
    pc,               \* position inside the method
    inToggle,         \* control is inside Toggle() (directly or via Enable/Disable)
    enabled,          \* local `enabled` (result of the last Enabled())
    data,             \* local `data` (result of the last getStateData/getSettingsData)
    err,              \* the error the method returned
    strength,         \* GetStrength's result, as a numerator over PCT_DEN
    pre,              \* both blobs as they were when the current call started
    nOps,             \* calls made so far
    otherWrites,      \* writes of the state key by other processes so far
    cli,              \* handleNightLight's run of `--night <number>`
    hdr               \* the displays' HDR state and the HDR controller's call

vars == <<stateData, settingsData, stateReadable, settingsReadable, stateLog,
          settingsWrites, op, arg, pc, inToggle, enabled, data, err, strength,
          pre, nOps, otherWrites, cli, hdr>>

\* What the night-light methods never touch.
others == <<otherWrites, cli, hdr>>

\* ---------------------------------------------------------------- bounds
MaxOps == 3
MaxOtherWrites == 1       \* writes of the state key by other processes
NumDisplays == 2          \* display paths the display-configuration API knows
MaxHdrCalls == 2          \* calls of the HDR controller

\* ------------------------------------------------------------- constants
DISABLED_FLAG == 19       \* 0x13
ENABLED_FLAG == 21        \* 0x15
MARKER_0 == 16            \* 0x10
MARKER_1 == 0             \* 0x00
FLAG_OFFSET == 18
DISABLED_LEN == 41
ENABLED_LEN == 43
MIN_STATE_LEN == 19
MIN_SETTINGS_LEN == 37    \* 0x25
TEMP_LO_OFFSET == 35      \* 0x23
TEMP_HI_OFFSET == 36      \* 0x24
TS_FIRST == 10
TS_LAST == 14
MIN_KELVIN == 1200
MAX_KELVIN == 6500

\* Fixed-point units of the model: percentages in quarter percents, kelvin in
\* eighths of a kelvin, GetStrength's result as a numerator over PCT_DEN.
PCT_SCALE == 4
KELVIN_SCALE == 8
PCT_DEN == 424            \* (MAX_KELVIN - MIN_KELVIN) * KELVIN_SCALE / 100

\* ----------------------------------------------------------------- blobs
BLen(b) == Cardinality(DOMAIN b)

EmptyBlob == [i \in {} |-> 0]

\* A byte of a slice handed out by the registry read: offsets past the value's
\* length but inside the read buffer hold the buffer's zero fill.
At(b, i) == IF i \in DOMAIN b THEN b[i] ELSE 0

\* The timestamp loop of Toggle and SetStrength: the first byte of offsets
\* 10..14 that is not 0xff is incremented, then the loop breaks.
FirstNotFF(b) ==
    LET c == {i \in TS_FIRST..TS_LAST : b[i] # 255}
    IN  IF c = {} THEN -1 ELSE CHOOSE i \in c : \A j \in c : i <= j

IncrementTimestampNoBreak(b) ==
    [i \in DOMAIN b |-> IF i \in TS_FIRST..TS_LAST /\ b[i] # 255 THEN b[i] + 1 ELSE b[i]]

IncrementTimestamp(b) ==
    LET k == FirstNotFF(b)
    IN  [i \in DOMAIN b |-> IF i = k THEN (b[i] + 1) % 256 ELSE b[i]]

\* Toggle's splice when `enabled`: make([]byte, 41), copy(newData[0:22],
\* data[0:22]), copy(newData[23:], data[25:43]), newData[18] = 0x13.
DisableSpliceShortPrefix(d) ==
    [i \in 0..(DISABLED_LEN - 1) |->
        IF i = FLAG_OFFSET THEN DISABLED_FLAG
        ELSE IF i < 21 THEN At(d, i)
        ELSE IF i < 23 THEN 0
        ELSE At(d, i + 2)]

DisableSplice(d) ==
    [i \in 0..(DISABLED_LEN - 1) |->
        IF i = FLAG_OFFSET THEN DISABLED_FLAG
        ELSE IF i < 22 THEN At(d, i)
        ELSE IF i < 23 THEN 0
        ELSE At(d, i + 2)]

\* Toggle's splice when not `enabled`: make([]byte, 43), copy(newData[0:22],
\* data[0:22]), copy(newData[25:], data[23:41]), then the flag and the marker.
EnableSpliceNoShift(d) ==
    [i \in 0..(ENABLED_LEN - 1) |->
        IF i = FLAG_OFFSET THEN ENABLED_FLAG
        ELSE IF i = 23 THEN MARKER_0
        ELSE IF i = 24 THEN MARKER_1
        ELSE IF i < 22 THEN At(d, i)
        ELSE IF i < 25 THEN 0
        ELSE At(d, i)]

EnableSplice(d) ==
    [i \in 0..(ENABLED_LEN - 1) |->
        IF i = FLAG_OFFSET THEN ENABLED_FLAG
        ELSE IF i = 23 THEN MARKER_0
        ELSE IF i = 24 THEN MARKER_1
        ELSE IF i < 22 THEN At(d, i)
        ELSE IF i < 25 THEN 0
        ELSE At(d, i - 2)]

\* The slice expressions of the splice reach past len(data): data[25:43] when
\* enabled, data[23:41] when not.  Go panics if the bound exceeds cap(data) and
\* otherwise reads the buffer behind the value.
OverRead(d, en) == BLen(d) < (IF en THEN ENABLED_LEN ELSE DISABLED_LEN)

ToggleDataNoTimestamp(d, en) == IF en THEN DisableSplice(d) ELSE EnableSplice(d)

ToggleData(d, en) ==
    IncrementTimestamp(IF en THEN DisableSplice(d) ELSE EnableSplice(d))

\* ------------------------------------------------------------- strength
\* float64 -> byte conversion of a value already truncated to an integer.
ToByte(x) == x % 256

\* Truncation toward zero of n/d (d > 0), as a float -> integer conversion does.
Trunc(n, d) == IF n >= 0 THEN n \div d ELSE -((-n) \div d)

\* Quarter percents at which the float64 product (percentage/100)*5300 is
\* rounded above the exact product, so that the kelvin value computed by
\* percentageToKelvin lies just below the exact (integer) kelvin.
FloatRoundsUp == {220, 222, 224, 270, 272, 274}

\* percentageToKelvin: MAX_KELVIN - (percentage/100)*(MAX_KELVIN-MIN_KELVIN),
\* in eighths of a kelvin.  Exact values are even; an odd value stands for
\* "just below the next even one".
percentageToKelvin(p) ==
    MAX_KELVIN * KELVIN_SCALE
      - (p * (MAX_KELVIN - MIN_KELVIN) * KELVIN_SCALE) \div (100 * PCT_SCALE)
      - (IF p \in FloatRoundsUp THEN 1 ELSE 0)

\* bytesToKelvin: float64(hiTemp)*64 + (float64(loTemp)-128)/2, in eighths.
bytesToKelvin(loTemp, hiTemp) ==
    hiTemp * 64 * KELVIN_SCALE + ((loTemp - 128) * KELVIN_SCALE) \div 2

\* kelvinToPercentage: 100 - ((kelvin-MIN_KELVIN)/(MAX_KELVIN-MIN_KELVIN))*100,
\* as a numerator over PCT_DEN.
kelvinToPercentage(k) == 100 * PCT_DEN - (k - MIN_KELVIN * KELVIN_SCALE)

\* SetStrength's clamp of the percentage to [0, 100].
NoClamp(p) == p

ClampPercentage(p) ==
    IF p < 0 THEN 0 ELSE IF p > 100 * PCT_SCALE THEN 100 * PCT_SCALE ELSE p

\* tempHi := byte(kelvin / 64)
TempHi(k) == ToByte(Trunc(k, 64 * KELVIN_SCALE))

\* tempLo := byte(((kelvin - float64(tempHi)*64) * 2) + 128)
TempLo(k) ==
    ToByte(Trunc((k - TempHi(k) * 64 * KELVIN_SCALE) * 2 + 128 * KELVIN_SCALE,
                 KELVIN_SCALE))

\* SetStrength's in-place update of the settings blob it read.
WithStrengthTruncated(d, p) ==
    LET k == percentageToKelvin(ClampPercentage(p))
    IN  IncrementTimestamp([i \in 0..TEMP_HI_OFFSET |->
            IF i = TEMP_LO_OFFSET THEN TempLo(k)
            ELSE IF i = TEMP_HI_OFFSET THEN TempHi(k)
            ELSE d[i]])

WithStrength(d, p) ==
    LET k == percentageToKelvin(ClampPercentage(p))
    IN  IncrementTimestamp([d EXCEPT ![TEMP_LO_OFFSET] = TempLo(k),
                                     ![TEMP_HI_OFFSET] = TempHi(k)])

\* ------------------------------------------------------- initial blobs
Fill(i) == 100 + i

TsWindows ==
    { <<5, 0, 0, 0, 0>>, <<255, 255, 7, 0, 0>>,
      <<255, 255, 255, 255, 254>>, <<255, 255, 255, 255, 255>> }

MkState(len, flag, ts, b22) ==
    [i \in 0..(len - 1) |->
        IF i = FLAG_OFFSET THEN flag
        ELSE IF i \in TS_FIRST..TS_LAST THEN ts[i - TS_FIRST + 1]
        ELSE IF i = 22 THEN b22
        ELSE IF len = ENABLED_LEN /\ i = 23 THEN MARKER_0
        ELSE IF len = ENABLED_LEN /\ i = 24 THEN MARKER_1
        ELSE Fill(i)]

MkSettings(len, ts, lo, hi) ==
    [i \in 0..(len - 1) |->
        IF i \in TS_FIRST..TS_LAST THEN ts[i - TS_FIRST + 1]
        ELSE IF i = TEMP_LO_OFFSET THEN lo
        ELSE IF i = TEMP_HI_OFFSET THEN hi
        ELSE Fill(i)]

StateLens == {18, 40, 41, 42, 43}
StateFlags == {DISABLED_FLAG, ENABLED_FLAG, 0}
Byte22s == {0, 7}

StateBlobs ==
    {MkState(l, f, t, b) : l \in StateLens, f \in StateFlags, t \in TsWindows, b \in Byte22s}

DefaultStates ==
    { MkState(DISABLED_LEN, DISABLED_FLAG, <<5, 0, 0, 0, 0>>, 0),
      MkState(ENABLED_LEN, ENABLED_FLAG, <<5, 0, 0, 0, 0>>, 0) }

SettingsLens == {36, 37, 40}
TempBytes == { <<128, 18>>, <<0, 0>>, <<255, 255>>, <<200, 50>>, <<136, 101>> }

SettingsBlobs ==
    {MkSettings(l, t, tb[1], tb[2]) :
        l \in SettingsLens, t \in {<<5, 0, 0, 0, 0>>, <<255, 255, 255, 255, 255>>}, tb \in TempBytes}

DefaultSettings == MkSettings(40, <<5, 0, 0, 0, 0>>, 200, 50)

\* Percentages the caller passes to SetStrength, in quarter percents.
Percentages == {-40, 0, 1, 220, 400, 600}

StateOps == {"Enabled", "Enable", "Disable", "Toggle"}
Ops == StateOps \cup {"GetStrength", "SetStrength"}

\* ------------------------------------------------------------------ Init
\* What the store holds, and how often it has been written, when a call starts.
Snapshot ==
    [state |-> stateData, settings |-> settingsData,
     stateWrites |-> Len(stateLog) - 1, settingsWrites |-> settingsWrites]

InitLocals ==
    /\ stateLog = <<stateData>>
    /\ settingsWrites = 0
    /\ op = "none"
    /\ arg = 0
    /\ pc = "idle"
    /\ inToggle = FALSE
    /\ enabled = FALSE
    /\ data = EmptyBlob
    /\ err = "nil"
    /\ strength = 0
    /\ pre = Snapshot
    /\ nOps = 0

InitStores ==
    \/ /\ stateData \in StateBlobs
       /\ settingsData = DefaultSettings
       /\ stateReadable = TRUE
       /\ settingsReadable = TRUE
    \/ /\ stateData \in DefaultStates
       /\ settingsData \in SettingsBlobs
       /\ stateReadable = TRUE
       /\ settingsReadable = TRUE
    \/ /\ stateData \in DefaultStates
       /\ settingsData = DefaultSettings
       /\ stateReadable \in BOOLEAN
       /\ settingsReadable \in BOOLEAN

\* No `--night <number>` run in progress.
NoSnapshot ==
    [state |-> EmptyBlob, settings |-> EmptyBlob, stateWrites |-> 0, settingsWrites |-> 0]

\* `pc` is the call of handleNightLight's numeric branch made last, `result`
\* whether the branch is still running, has returned nil or returned an error.
CliNone == [pc |-> "none", result |-> "running", val |-> 0, pre |-> NoSnapshot]

\* ------------------------------------------------------------------- HDR
Displays == 1..NumDisplays

\* The HDR controller at rest over a display configuration: `on` is each
\* display's advanced-color state, `paths` the active paths QueryDisplayConfig
\* returns, `avail` those with TargetAvailable != 0, `fails` the displays on
\* which DisplayConfigSetDeviceInfo fails, `sizesOk`/`queryOk` whether
\* GetDisplayConfigBufferSizes / QueryDisplayConfig succeed.
HdrAtRest(on, paths, avail, fails, sizesOk, queryOk) ==
    [on |-> on, paths |-> paths, avail |-> avail, fails |-> fails,
     sizesOk |-> sizesOk, queryOk |-> queryOk,
     pc |-> "idle", op |-> "none", enable |-> FALSE, attempt |-> 0,
     err |-> "nil", pre |-> on, calls |-> 0]

HdrDefault ==
    HdrAtRest([d \in Displays |-> FALSE], Displays, Displays, {}, TRUE, TRUE)

InitOthers ==
    /\ otherWrites = 0
    /\ cli = CliNone
    /\ hdr = HdrDefault

Init == InitStores /\ InitLocals /\ InitOthers

\* --------------------------------------------------------------- actions
\* Enable(): if !enabled { return nl.Toggle() };  Disable(): if enabled { ... }.
NeedsToggleAlways(o, e) == TRUE

NeedsToggle(o, e) == (o = "Enable" /\ ~e) \/ (o = "Disable" /\ e)

\* The caller enters a method of Lumos.  Every public method starts with
\* Supported() (Enable, Disable and Toggle through Enabled()).
Begin(o, p) ==
    /\ pc = "idle"
    /\ op' = o
    /\ arg' = p
    /\ pc' = "supported"
    /\ inToggle' = (o = "Toggle")
    /\ enabled' = FALSE
    /\ data' = EmptyBlob
    /\ err' = "nil"
    /\ strength' = 0
    /\ pre' = Snapshot
    /\ nOps' = nOps + 1
    /\ UNCHANGED <<stateData, settingsData, stateReadable, settingsReadable,
                   stateLog, settingsWrites>>

Enter(o, p) ==
    /\ nOps < MaxOps
    /\ Begin(o, p)
    /\ UNCHANGED others

Call ==
    \E o \in Ops :
        \E p \in (IF o = "SetStrength" THEN Percentages ELSE {0}) : Enter(o, p)

\* Supported(): getStateData() succeeds.  On failure the method returns
\* errors.New("night light not supported").
SupportedStep ==
    /\ pc = "supported"
    /\ IF ~stateReadable
         THEN /\ err' = "NotSupported"
              /\ pc' = "idle"
         ELSE /\ err' = err
              /\ pc' = IF op = "GetStrength" THEN "getStrength"
                       ELSE IF op = "SetStrength" THEN "setStrengthRead"
                       ELSE "enabled"
    /\ UNCHANGED <<stateData, settingsData, stateReadable, settingsReadable,
                   stateLog, settingsWrites, op, arg, inToggle, enabled, data,
                   strength, pre, nOps>>
    /\ UNCHANGED others

\* The rest of Enabled(): getStateData(), the length check, data[18] == 0x15;
\* then the caller's branch on the result (Enable, Disable, Toggle).
EnabledStep ==
    /\ pc = "enabled"
    /\ IF ~stateReadable
         THEN /\ err' = "StoreError"
              /\ pc' = "idle"
              /\ UNCHANGED <<enabled, inToggle>>
         ELSE IF BLen(stateData) < MIN_STATE_LEN
         THEN /\ err' = "InvalidData"
              /\ pc' = "idle"
              /\ UNCHANGED <<enabled, inToggle>>
         ELSE LET e == stateData[FLAG_OFFSET] = ENABLED_FLAG
                  calls == NeedsToggle(op, e)
              IN  /\ enabled' = e
                  /\ err' = err
                  /\ IF inToggle
                       THEN pc' = "toggleRead" /\ inToggle' = inToggle
                       ELSE IF calls
                       THEN pc' = "supported" /\ inToggle' = TRUE
                       ELSE pc' = "idle" /\ inToggle' = inToggle
    /\ UNCHANGED <<stateData, settingsData, stateReadable, settingsReadable,
                   stateLog, settingsWrites, op, arg, data, strength, pre, nOps>>
    /\ UNCHANGED others

\* Toggle(): data, err := nl.getStateData()
ToggleRead ==
    /\ pc = "toggleRead"
    /\ IF ~stateReadable
         THEN /\ err' = "StoreError"
              /\ pc' = "idle"
              /\ data' = data
         ELSE /\ err' = err
              /\ pc' = "toggleWrite"
              /\ data' = stateData
    /\ UNCHANGED <<stateData, settingsData, stateReadable, settingsReadable,
                   stateLog, settingsWrites, op, arg, inToggle, enabled,
                   strength, pre, nOps>>
    /\ UNCHANGED others

\* Toggle(): the splice, the timestamp loop and setStateData(newData).  A
\* slice bound past len(data) either panics (bound > cap) or reads the zero
\* fill of the read buffer.
ToggleWrite ==
    /\ pc = "toggleWrite"
    /\ \E panics \in (IF OverRead(data, enabled) THEN BOOLEAN ELSE {FALSE}) :
         IF panics
           THEN /\ pc' = "crashed"
                /\ err' = "panic"
                /\ UNCHANGED <<stateData, stateLog>>
           ELSE /\ stateData' = ToggleData(data, enabled)
                /\ stateLog' = Append(stateLog, stateData')
                /\ pc' = "idle"
                /\ err' = err
    /\ UNCHANGED <<settingsData, stateReadable, settingsReadable,
                   settingsWrites, op, arg, inToggle, enabled, data, strength,
                   pre, nOps>>
    /\ UNCHANGED others

\* GetStrength(): getSettingsData(), the length check, the two conversions.
GetStrengthStep ==
    /\ pc = "getStrength"
    /\ IF ~settingsReadable
         THEN /\ err' = "StoreError"
              /\ strength' = strength
         ELSE IF BLen(settingsData) < MIN_SETTINGS_LEN
         THEN /\ err' = "InvalidData"
              /\ strength' = strength
         ELSE /\ err' = err
              /\ strength' = kelvinToPercentage(
                    bytesToKelvin(settingsData[TEMP_LO_OFFSET], settingsData[TEMP_HI_OFFSET]))
    /\ pc' = "idle"
    /\ UNCHANGED <<stateData, settingsData, stateReadable, settingsReadable,
                   stateLog, settingsWrites, op, arg, inToggle, enabled, data,
                   pre, nOps>>
    /\ UNCHANGED others

\* SetStrength(): getSettingsData() and the length check.
SetStrengthRead ==
    /\ pc = "setStrengthRead"
    /\ IF ~settingsReadable
         THEN /\ err' = "StoreError"
              /\ pc' = "idle"
              /\ data' = data
         ELSE IF BLen(settingsData) < MIN_SETTINGS_LEN
         THEN /\ err' = "InvalidData"
              /\ pc' = "idle"
              /\ data' = data
         ELSE /\ err' = err
              /\ pc' = "setStrengthWrite"
              /\ data' = settingsData
    /\ UNCHANGED <<stateData, settingsData, stateReadable, settingsReadable,
                   stateLog, settingsWrites, op, arg, inToggle, enabled,
                   strength, pre, nOps>>
    /\ UNCHANGED others

\* SetStrength(): the two temperature bytes, the timestamp loop and
\* setSettingsData(data).
SetStrengthWrite ==
    /\ pc = "setStrengthWrite"
    /\ settingsData' = WithStrength(data, arg)
    /\ settingsWrites' = settingsWrites + 1
    /\ pc' = "idle"
    /\ UNCHANGED <<stateData, stateReadable, settingsReadable, stateLog, op,
                   arg, inToggle, enabled, data, err, strength, pre, nOps>>
    /\ UNCHANGED others

Next ==
    \/ Call
    \/ SupportedStep
    \/ EnabledStep
    \/ ToggleRead
    \/ ToggleWrite
    \/ GetStrengthStep
    \/ SetStrengthRead
    \/ SetStrengthWrite

Spec == Init /\ [][Next]_vars

\* One GetStrength or SetStrength call per initial store, over every quarter
\* percent from -10 % to 110 %.
AllPercentages == (-40)..440

InitStrength ==
    /\ stateData \in DefaultStates
    /\ settingsData \in {DefaultSettings, MkSettings(37, <<255, 255, 255, 255, 255>>, 128, 18)}
    /\ stateReadable = TRUE
    /\ settingsReadable = TRUE
    /\ InitLocals
    /\ InitOthers

CallStrength ==
    /\ nOps = 0
    /\ \E o \in {"GetStrength", "SetStrength"} :
         \E p \in (IF o = "SetStrength" THEN AllPercentages ELSE {0}) : Enter(o, p)

NextStrength ==
    \/ CallStrength
    \/ SupportedStep
    \/ GetStrengthStep
    \/ SetStrengthRead
    \/ SetStrengthWrite

SpecStrength == InitStrength /\ [][NextStrength]_vars

\* ------------------------------------------------------- HDR controller
\* SetHDR(enable): the displays setHDRForDisplay succeeds on.
HdrConfigured(h) == h.avail \ h.fails

\* SetHDR(enable): the error it returns.
SetHDRErr(h) ==
    IF ~h.sizesOk THEN "BufferSizesFailed"
    ELSE IF h.paths = {} THEN "NoActiveDisplays"
    ELSE IF ~h.queryOk THEN "QueryFailed"
    ELSE IF HdrConfigured(h) = {} /\ h.avail # {} THEN "SetDeviceInfoFailed"
    ELSE IF HdrConfigured(h) = {} THEN "NoCompatibleDisplays"
    ELSE "nil"

\* SetHDR(enable): the displays' state after the loop over the paths.
SetHDROn(h, enable) ==
    IF ~h.sizesOk \/ h.paths = {} \/ ~h.queryOk
      THEN h.on
      ELSE [d \in Displays |-> IF d \in HdrConfigured(h) THEN enable ELSE h.on[d]]

\* Toggle(): err := h.Disable() first, whatever the current state is.
HdrFirstEnable(o, on) == o = "Enable"

\* The caller enters HDR.Enable(), HDR.Disable() or HDR.Toggle().
HdrEnter ==
    /\ hdr.pc = "idle"
    /\ hdr.calls < MaxHdrCalls
    /\ \E o \in {"Enable", "Disable", "Toggle"} :
         hdr' = [hdr EXCEPT !.pc = "setHDR", !.op = o,
                            !.enable = HdrFirstEnable(o, hdr.on),
                            !.attempt = 1, !.err = "nil", !.pre = hdr.on,
                            !.calls = hdr.calls + 1]
    /\ UNCHANGED <<stateData, settingsData, stateReadable, settingsReadable,
                   stateLog, settingsWrites, op, arg, pc, inToggle, enabled,
                   data, err, strength, pre, nOps, otherWrites, cli>>

\* One SetHDR(enable) call; in Toggle(), a failed Disable() is followed by
\* return h.Enable().
HdrSetHDR ==
    /\ hdr.pc = "setHDR"
    /\ LET e == SetHDRErr(hdr)
           on == SetHDROn(hdr, hdr.enable)
       IN  IF hdr.op = "Toggle" /\ hdr.attempt = 1 /\ e # "nil"
             THEN hdr' = [hdr EXCEPT !.on = on, !.enable = TRUE, !.attempt = 2]
             ELSE hdr' = [hdr EXCEPT !.on = on, !.err = e, !.pc = "idle"]
    /\ UNCHANGED <<stateData, settingsData, stateReadable, settingsReadable,
                   stateLog, settingsWrites, op, arg, pc, inToggle, enabled,
                   data, err, strength, pre, nOps, otherWrites, cli>>

InitHDR ==
    /\ stateData \in DefaultStates
    /\ settingsData = DefaultSettings
    /\ stateReadable = TRUE
    /\ settingsReadable = TRUE
    /\ InitLocals
    /\ otherWrites = 0
    /\ cli = CliNone
    /\ \E on \in [Displays -> BOOLEAN], paths \in SUBSET Displays,
          fails \in SUBSET Displays, sizesOk \in BOOLEAN, queryOk \in BOOLEAN :
         \E avail \in SUBSET paths :
            hdr = HdrAtRest(on, paths, avail, fails, sizesOk, queryOk)

NextHDR ==
    \/ HdrEnter
    \/ HdrSetHDR

SpecHDR == InitHDR /\ [][NextHDR]_vars

\* ------------------------------------------------------ other processes
\* Another process that enables or disables the feature through the same
\* registry value: it replaces the state blob by a valid one of either shape.
OtherWriter ==
    /\ otherWrites < MaxOtherWrites
    /\ stateReadable
    /\ \E b \in DefaultStates :
         /\ b # stateData
         /\ stateData' = b
         /\ stateLog' = Append(stateLog, b)
    /\ otherWrites' = otherWrites + 1
    /\ UNCHANGED <<settingsData, stateReadable, settingsReadable,
                   settingsWrites, op, arg, pc, inToggle, enabled, data, err,
                   strength, pre, nOps, cli, hdr>>

\* Valid state blobs: 41 bytes with flag 0x13 or 43 bytes with flag 0x15.
ValidStateBlobs ==
    {b \in StateBlobs :
        \/ BLen(b) = DISABLED_LEN /\ b[FLAG_OFFSET] = DISABLED_FLAG
        \/ BLen(b) = ENABLED_LEN /\ b[FLAG_OFFSET] = ENABLED_FLAG}

InitConcurrent ==
    /\ stateData \in ValidStateBlobs
    /\ settingsData = DefaultSettings
    /\ stateReadable = TRUE
    /\ settingsReadable = TRUE
    /\ InitLocals
    /\ InitOthers

CallState == \E o \in StateOps : Enter(o, 0)

NextConcurrent ==
    \/ CallState
    \/ SupportedStep
    \/ EnabledStep
    \/ ToggleRead
    \/ ToggleWrite
    \/ OtherWriter

SpecConcurrent == InitConcurrent /\ [][NextConcurrent]_vars

\* ------------------------------------------------- lumos --night <number>
\* handleNightLight, default branch: SetStrength(val); Enabled(); if enabled
\* { Disable(); Sleep }; Enable().  Every `if err != nil { return err }` ends
\* the branch.
NightVars ==
    <<stateData, settingsData, stateReadable, settingsReadable, stateLog,
      settingsWrites, op, arg, pc, inToggle, enabled, data, err, strength,
      pre, nOps>>

\* if enabled { nl.Disable() ... }
CliRestartsNever(e) == FALSE

CliRestarts(e) == e

\* The branch calls method o next.
CliCall(o, p) ==
    /\ Begin(o, p)
    /\ cli' = [cli EXCEPT !.pc = o]

\* The branch ends with result r.
CliReturn(r) ==
    /\ cli' = [cli EXCEPT !.result = r]
    /\ UNCHANGED NightVars

\* val, err := strconv.ParseFloat(state, 64); nl.SetStrength(val)
CliStart ==
    /\ cli.pc = "none"
    /\ \E v \in Percentages :
         /\ Begin("SetStrength", v)
         /\ cli' = [pc |-> "SetStrength", result |-> "running", val |-> v,
                    pre |-> Snapshot]
    /\ UNCHANGED <<otherWrites, hdr>>

\* SetStrength has returned: return err, or enabled, err := nl.Enabled()
CliAfterSetStrength ==
    /\ cli.pc = "SetStrength" /\ cli.result = "running" /\ pc = "idle"
    /\ IF err # "nil" THEN CliReturn("failed") ELSE CliCall("Enabled", 0)
    /\ UNCHANGED <<otherWrites, hdr>>

\* Enabled has returned: return err, or Disable() if enabled, else Enable()
CliAfterEnabled ==
    /\ cli.pc = "Enabled" /\ cli.result = "running" /\ pc = "idle"
    /\ IF err # "nil" THEN CliReturn("failed")
       ELSE IF CliRestarts(enabled) THEN CliCall("Disable", 0)
       ELSE CliCall("Enable", 0)
    /\ UNCHANGED <<otherWrites, hdr>>

\* Disable has returned: return err, or time.Sleep and Enable()
CliAfterDisable ==
    /\ cli.pc = "Disable" /\ cli.result = "running" /\ pc = "idle"
    /\ IF err # "nil" THEN CliReturn("failed") ELSE CliCall("Enable", 0)
    /\ UNCHANGED <<otherWrites, hdr>>

\* Enable has returned: return err, or print and return nil
CliAfterEnable ==
    /\ cli.pc = "Enable" /\ cli.result = "running" /\ pc = "idle"
    /\ IF err # "nil" THEN CliReturn("failed") ELSE CliReturn("done")
    /\ UNCHANGED <<otherWrites, hdr>>

InitCli == InitStores /\ InitLocals /\ InitOthers

NextCli ==
    \/ CliStart
    \/ CliAfterSetStrength
    \/ CliAfterEnabled
    \/ CliAfterDisable
    \/ CliAfterEnable
    \/ SupportedStep
    \/ EnabledStep
    \/ ToggleRead
    \/ ToggleWrite
    \/ SetStrengthRead
    \/ SetStrengthWrite

SpecCli == InitCli /\ [][NextCli]_vars

\* ---------------------------------------------------------------- claims
ValidDisabled(b) == BLen(b) = DISABLED_LEN /\ b[FLAG_OFFSET] = DISABLED_FLAG
ValidEnabled(b) == BLen(b) = ENABLED_LEN /\ b[FLAG_OFFSET] = ENABLED_FLAG
ValidState(b) == ValidDisabled(b) \/ ValidEnabled(b)

\* The call of method o has returned (normally) to the caller.
Returned(o) == op = o /\ pc = "idle"
ReturnedNil(o) == Returned(o) /\ err = "nil"

StateWritesInCall == (Len(stateLog) - 1) - pre.stateWrites
SettingsWritesInCall == settingsWrites - pre.settingsWrites

\* What Enabled() reports for a readable state blob of at least 19 bytes.
FlagSaysEnabled(b) == b[FLAG_OFFSET] = ENABLED_FLAG

\* r's timestamp window is b's with the first non-0xFF byte one higher.
WindowAdvanced(b, r) ==
    \A i \in TS_FIRST..TS_LAST :
        r[i] = IF b[i] # 255 /\ (\A j \in TS_FIRST..(i - 1) : b[j] = 255)
                 THEN b[i] + 1 ELSE b[i]

WindowAllFF(b) == \A i \in TS_FIRST..TS_LAST : b[i] = 255

\* C1: a successful Toggle() on a 41-byte blob with flag 0x13 leaves a 43-byte
\* blob with flag 0x15, the marker 0x10,0x00 at offsets 23-24, the 18 tail
\* bytes moved right by two, and the timestamp window advanced at its first
\* non-0xFF byte.
C1_ToggleEnables ==
    (ReturnedNil("Toggle") /\ ValidDisabled(pre.state)) =>
        /\ BLen(stateData) = 43
        /\ stateData[18] = 21
        /\ stateData[23] = 16
        /\ stateData[24] = 0
        /\ \A i \in 0..17 : stateData[25 + i] = pre.state[23 + i]
        /\ WindowAdvanced(pre.state, stateData)

C1_Witness ==
    /\ ReturnedNil("Toggle")
    /\ ValidDisabled(pre.state)
    /\ pre.state[10] = 5
    /\ stateData[10] = 6
    /\ stateData[42] = pre.state[40]
    /\ Len(stateLog) = 2

\* C2: a successful Toggle() on a 43-byte blob with flag 0x15 leaves a 41-byte
\* blob with flag 0x13 that is the old blob without its bytes 23-24: byte 22
\* is kept and the 18 bytes from offset 25 on move left by two.
C2_ToggleDisablesExact ==
    (ReturnedNil("Toggle") /\ ValidEnabled(pre.state)) =>
        /\ BLen(stateData) = 41
        /\ stateData[18] = 19
        /\ stateData[22] = pre.state[22]
        /\ \A i \in 0..17 : stateData[23 + i] = pre.state[25 + i]

\* C3: with no other writer, a successful Enable() on a blob Enabled() reports
\* enabled writes nothing and leaves the blob as it was, and on any other blob
\* writes once and leaves a blob Enabled() reports enabled; Disable() is the
\* mirror image; a successful Toggle() writes once and flips what Enabled()
\* reports.
C3_EnableDisableToggle ==
    /\ ReturnedNil("Enable") =>
         IF FlagSaysEnabled(pre.state)
           THEN StateWritesInCall = 0 /\ stateData = pre.state
           ELSE StateWritesInCall = 1 /\ FlagSaysEnabled(stateData)
    /\ ReturnedNil("Disable") =>
         IF FlagSaysEnabled(pre.state)
           THEN StateWritesInCall = 1 /\ ~FlagSaysEnabled(stateData)
           ELSE StateWritesInCall = 0 /\ stateData = pre.state
    /\ ReturnedNil("Toggle") =>
         /\ StateWritesInCall = 1
         /\ FlagSaysEnabled(stateData) # FlagSaysEnabled(pre.state)
    /\ ReturnedNil("Enabled") => enabled = FlagSaysEnabled(stateData)

C3_Witness ==
    /\ ReturnedNil("Enable")
    /\ ValidEnabled(pre.state)
    /\ nOps = 2
    /\ Len(stateLog) = 2
    /\ ValidDisabled(stateLog[1])

\* Offsets 0..21 apart from the flag byte and the timestamp window.
PrefixOffsets == (0..21) \ ({FLAG_OFFSET} \cup (TS_FIRST..TS_LAST))

\* C4 as stated: a successful Toggle() on a valid disabled blob leaves a
\* 43-byte blob with flag 0x15 whose bytes 0-21 all equal the old bytes 0-21.
C4_PrefixUnchanged ==
    (ReturnedNil("Toggle") /\ ValidDisabled(pre.state)) =>
        /\ BLen(stateData) = 43
        /\ stateData[18] = 21
        /\ \A i \in 0..21 : stateData[i] = pre.state[i]

\* C4 amended: a successful Toggle() on a valid disabled blob leaves a 43-byte
\* blob with flag 0x15, and every write of Toggle(), Enable() or Disable() on a
\* valid blob keeps bytes 0-21 except the flag byte (offset 18) and the
\* timestamp window (offsets 10-14), of which only the first non-0xFF byte
\* changes.
C4_PrefixKept ==
    /\ (ReturnedNil("Toggle") /\ ValidDisabled(pre.state)) =>
          BLen(stateData) = 43 /\ stateData[18] = 21
    /\ \A o \in {"Toggle", "Enable", "Disable"} :
          (ReturnedNil(o) /\ ValidState(pre.state) /\ StateWritesInCall = 1) =>
              /\ \A i \in PrefixOffsets : stateData[i] = pre.state[i]
              /\ WindowAdvanced(pre.state, stateData)
              /\ stateData[18] # pre.state[18]

C4_Witness ==
    /\ ReturnedNil("Toggle")
    /\ ValidDisabled(pre.state)
    /\ StateWritesInCall = 1
    /\ BLen(stateData) = 43
    /\ stateData[21] = Fill(21)
    /\ stateData[18] = 21
    /\ stateData[10] = pre.state[10] + 1

\* The timestamp window read as a little-endian number: a's is below b's.
TsLess(a, b) ==
    \E k \in TS_FIRST..TS_LAST :
        /\ a[k] < b[k]
        /\ \A j \in (k + 1)..TS_LAST : a[j] = b[j]

\* C5: with the state key written by Toggle() only, two successive toggles of
\* a valid enabled blob whose window is not all 0xFF give a blob of the same
\* flag and length with a strictly greater timestamp, and no toggle ever
\* lowers the timestamp.
C5_TimestampMonotonic ==
    /\ \A i \in 1..(Len(stateLog) - 2) :
          (ValidEnabled(stateLog[i]) /\ ~WindowAllFF(stateLog[i])) =>
              /\ stateLog[i + 2][18] = stateLog[i][18]
              /\ BLen(stateLog[i + 2]) = BLen(stateLog[i])
              /\ TsLess(stateLog[i], stateLog[i + 2])
    /\ \A i \in 1..(Len(stateLog) - 1) :
          ValidState(stateLog[i]) => ~TsLess(stateLog[i + 1], stateLog[i])

C5_Witness ==
    /\ Len(stateLog) = 3
    /\ ValidEnabled(stateLog[1])
    /\ stateLog[1][14] = 254
    /\ WindowAllFF(stateLog[2])
    /\ WindowAllFF(stateLog[3])
    /\ ValidEnabled(stateLog[3])

\* C6: when the stored state blob is invalid (length not 41 or 43, flag not
\* 0x13 or 0x15, or flag and length disagreeing), Enabled(), Enable(),
\* Disable() and Toggle() end with an InvalidData error and write nothing.
C6_InvalidStateRejected ==
    \A o \in StateOps :
        (op = o /\ pc \in {"idle", "crashed"} /\ stateReadable /\ ~ValidState(pre.state)) =>
            /\ err = "InvalidData"
            /\ StateWritesInCall = 0
            /\ stateData = pre.state

\* C7: SetStrength(p) clamps p to [0,100], computes kelvin from the clamped
\* value, and stores byte 0x24 = floor(kelvin/64) in 18..101 and byte 0x23 =
\* trunc((kelvin - byte0x24*64)*2) + 128 in 128..255; every p <= 0 stores what
\* p = 0 stores (101, 200) and every p >= 100 what p = 100 stores (18, 224).
C7_StrengthBytes ==
    ReturnedNil("SetStrength") =>
        LET hi == settingsData[36]
            lo == settingsData[35]
            c  == IF arg < 0 THEN 0 ELSE IF arg > 400 THEN 400 ELSE arg
            k  == percentageToKelvin(c)
            r  == k - hi * 512
        IN  /\ hi \in 18..101
            /\ lo \in 128..255
            /\ hi * 512 <= k /\ k < (hi + 1) * 512
            /\ (lo - 128) * 4 <= r /\ r < (lo - 127) * 4
            /\ arg >= 400 => (hi = 18 /\ lo = 224)
            /\ arg <= 0 => (hi = 101 /\ lo = 200)

C7_Witness ==
    /\ ReturnedNil("SetStrength")
    /\ arg = 440
    /\ settingsData[36] = 18
    /\ settingsData[35] = 224
    /\ SettingsWritesInCall = 1

\* C8: a successful SetStrength(p) writes the settings key once, with a blob
\* of the length it read in which only offsets 0x23, 0x24 and the timestamp
\* window 10..14 may differ, and leaves the state key unwritten.
C8_SetStrengthFrame ==
    ReturnedNil("SetStrength") =>
        /\ SettingsWritesInCall = 1
        /\ DOMAIN settingsData = DOMAIN pre.settings
        /\ \A i \in DOMAIN pre.settings :
              (i \notin {35, 36} /\ i \notin 10..14) => settingsData[i] = pre.settings[i]
        /\ StateWritesInCall = 0
        /\ stateData = pre.state

C8_Witness ==
    /\ ReturnedNil("SetStrength")
    /\ BLen(pre.settings) = 40
    /\ settingsData[39] = Fill(39)
    /\ settingsData[36] # pre.settings[36]
    /\ settingsData[10] = 6
    /\ ValidEnabled(stateData)

\* C9: a successful GetStrength() returns a value in [0, 100], whatever bytes
\* the settings blob holds at offsets 0x23 and 0x24.
C9_StrengthInRange ==
    ReturnedNil("GetStrength") => (0 <= strength /\ strength <= 100 * PCT_DEN)

\* C10: the timestamp advance of Toggle() and of SetStrength() adds one to the
\* first byte of offsets 10..14 that is not 0xFF and changes no other byte of
\* the window; with all five bytes 0xFF the window stays as it is, and the
\* call still writes the blob and returns nil.
C10_TimestampAdvance ==
    /\ (Returned("Toggle") /\ stateReadable /\ ValidState(pre.state)) =>
          /\ err = "nil"
          /\ StateWritesInCall = 1
          /\ WindowAdvanced(pre.state, stateData)
          /\ WindowAllFF(pre.state) =>
                \A i \in 10..14 : stateData[i] = 255
    /\ (Returned("SetStrength") /\ stateReadable /\ settingsReadable
          /\ BLen(pre.settings) >= 37) =>
          /\ err = "nil"
          /\ SettingsWritesInCall = 1
          /\ WindowAdvanced(pre.settings, settingsData)
          /\ WindowAllFF(pre.settings) =>
                \A i \in 10..14 : settingsData[i] = 255

C10_Witness ==
    /\ ReturnedNil("Toggle")
    /\ ValidState(pre.state)
    /\ pre.state[10] = 255 /\ pre.state[11] = 255 /\ pre.state[12] = 7
    /\ stateData[10] = 255 /\ stateData[11] = 255 /\ stateData[12] = 8
    /\ stateData[13] = 0

C10_WitnessSaturated ==
    /\ ReturnedNil("SetStrength")
    /\ WindowAllFF(pre.settings)
    /\ WindowAllFF(settingsData)
    /\ SettingsWritesInCall = 1

\* C11: every failing read of the store reaches the caller as NotSupported:
\* Enabled(), Enable(), Disable() and Toggle() when the state key cannot be
\* read, GetStrength() and SetStrength() when the settings key cannot be read;
\* no raw store error is returned.
C11_ReadFailureNotSupported ==
    /\ \A o \in StateOps :
          (Returned(o) /\ ~stateReadable) => err = "NotSupported"
    /\ \A o \in {"GetStrength", "SetStrength"} :
          (Returned(o) /\ ~settingsReadable) => err = "NotSupported"
    /\ \A o \in Ops : Returned(o) => err # "StoreError"

\* Every display-configuration call of the HDR controller succeeds and there
\* is a display to configure.
HdrAllCallsSucceed ==
    /\ hdr.sizesOk /\ hdr.queryOk
    /\ hdr.avail # {}
    /\ hdr.avail \cap hdr.fails = {}

\* C12: when every display-configuration call succeeds, HDR.Toggle() leaves
\* HDR on on the compatible displays if it was off on them before the call,
\* and off if it was on.
C12_HdrToggleSwitches ==
    (hdr.op = "Toggle" /\ hdr.pc = "idle" /\ HdrAllCallsSucceed) =>
        /\ (\A d \in hdr.avail : ~hdr.pre[d]) => (\A d \in hdr.avail : hdr.on[d])
        /\ (\A d \in hdr.avail : hdr.pre[d]) => (\A d \in hdr.avail : ~hdr.on[d])

\* A valid state blob as the other processes write it: 41 bytes with flag
\* 0x13, or 43 bytes with flag 0x15 and the marker 0x10, 0x00 at 23-24.
ValidWritten(b) ==
    \/ ValidDisabled(b)
    \/ ValidEnabled(b) /\ b[23] = MARKER_0 /\ b[24] = MARKER_1

\* C13: with a valid state blob in the store initially and other processes
\* writing valid state blobs only, every blob ever written to the state key is
\* valid, and no Toggle(), Enable() or Disable() splices past the end of the
\* blob it has read (the decision and the spliced bytes are of one read).
C13_OneReadOneWrite ==
    /\ \A i \in 1..Len(stateLog) : ValidWritten(stateLog[i])
    /\ pc = "toggleWrite" => /\ ~OverRead(data, enabled)
                             /\ enabled = FlagSaysEnabled(data)
    /\ pc # "crashed"

\* C14: whatever other processes write to the state key in between, Enable()
\* never writes a blob whose flag byte is 0x13 and Disable() never writes a
\* blob whose flag byte is 0x15.
C14_EnableNeverDisables ==
    [][(pc = "toggleWrite" /\ pc' = "idle") =>
          /\ op = "Enable" => stateData'[FLAG_OFFSET] # DISABLED_FLAG
          /\ op = "Disable" => stateData'[FLAG_OFFSET] # ENABLED_FLAG]_vars

\* Writes of each key since the `--night <number>` run started, and whether
\* Enabled() reports the feature enabled for the state blob it started with.
CliStateWrites == (Len(stateLog) - 1) - cli.pre.stateWrites
CliSettingsWrites == settingsWrites - cli.pre.settingsWrites
CliWasEnabled ==
    BLen(cli.pre.state) >= MIN_STATE_LEN /\ FlagSaysEnabled(cli.pre.state)
CliAfter(calls) == cli.pc \in calls
CliStopped == cli.result = "failed" \/ pc = "crashed"

\* The k-th state blob written since the run started.
CliWritten(k) == stateLog[cli.pre.stateWrites + 1 + k]

SameWindow(a, b) == \A i \in TS_FIRST..TS_LAST : a[i] = b[i]

\* C15: in a run of `--night <number>` with no other writer, the settings
\* blob is written first, once, with the strength clamped to [0,100]; then
\* the state blob is written disabled only if the feature was enabled, then
\* written enabled; a run that completes leaves the feature enabled with the
\* timestamp advance applied to the state blob twice if it was enabled at
\* the start and once if not; a run that stops at a failing step has made
\* no write of a later step.
C15_NightNumberSequence ==
    /\ CliAfter({"SetStrength"}) =>
          /\ CliStateWrites = 0
          /\ CliSettingsWrites <= 1
          /\ CliStopped => CliSettingsWrites = 0
    /\ CliAfter({"Enabled", "Disable", "Enable"}) =>
          LET c == IF cli.val < 0 THEN 0
                   ELSE IF cli.val > 100 * PCT_SCALE THEN 100 * PCT_SCALE
                   ELSE cli.val
              k == percentageToKelvin(c)
          IN  /\ CliSettingsWrites = 1
              /\ settingsData[TEMP_HI_OFFSET] = TempHi(k)
              /\ settingsData[TEMP_LO_OFFSET] = TempLo(k)
              /\ cli.val >= 100 * PCT_SCALE =>
                    settingsData[TEMP_HI_OFFSET] = 18 /\ settingsData[TEMP_LO_OFFSET] = 224
              /\ cli.val <= 0 =>
                    settingsData[TEMP_HI_OFFSET] = 101 /\ settingsData[TEMP_LO_OFFSET] = 200
    /\ CliAfter({"Enabled"}) => CliStateWrites = 0
    /\ CliAfter({"Disable"}) =>
          /\ CliWasEnabled
          /\ CliStateWrites <= 1
          /\ CliStopped => CliStateWrites = 0
          /\ CliStateWrites = 1 => CliWritten(1)[FLAG_OFFSET] = DISABLED_FLAG
    /\ CliAfter({"Enable"}) =>
          LET before == IF CliWasEnabled THEN 1 ELSE 0
          IN  /\ CliStateWrites \in {before, before + 1}
              /\ CliStopped => CliStateWrites = before
              /\ CliWasEnabled => CliWritten(1)[FLAG_OFFSET] = DISABLED_FLAG
              /\ CliStateWrites = before + 1 =>
                    CliWritten(before + 1)[FLAG_OFFSET] = ENABLED_FLAG
    /\ cli.result = "done" =>
          /\ cli.pc = "Enable"
          /\ FlagSaysEnabled(stateData)
          /\ CliStateWrites = IF CliWasEnabled THEN 2 ELSE 1
          /\ SameWindow(stateData,
                IF CliWasEnabled
                  THEN IncrementTimestamp(IncrementTimestamp(cli.pre.state))
                  ELSE IncrementTimestamp(cli.pre.state))

\* The run completes on a valid enabled blob: disabled, then enabled again.
C15_Witness ==
    /\ cli.result = "done"
    /\ ValidEnabled(cli.pre.state)
    /\ CliStateWrites = 2
    /\ CliSettingsWrites = 1
    /\ TsLess(cli.pre.state, CliWritten(1))
    /\ TsLess(CliWritten(1), stateData)

\* The run completes on a valid disabled blob: one write.
C15_WitnessDisabled ==
    /\ cli.result = "done"
    /\ ValidDisabled(cli.pre.state)
    /\ CliStateWrites = 1

\* The run stops at a failing step.
C15_WitnessFailed == cli.result = "failed" /\ cli.pc = "Enabled"

====
